---- MODULE Spec2Model ----
(***************************************************************************)
(* Model of quantmark/circuit.py: the textual circuit notation, its        *)
(* validator, the gate field extractors, the gate record builder, the gate *)
(* materializer and circuit_from_string.                                   *)
(*                                                                         *)
(* A string is a sequence of one-character strings.  A regular expression  *)
(* is a tree; Match gives, for a start position, the end positions of its  *)
(* matches in the order in which a backtracking matcher tries them, so     *)
(* that the first one is the match re.findall reports and the existence of *)
(* one that satisfies the rest of a pattern is what re.match decides.      *)
(***************************************************************************)
EXTENDS Integers, Sequences, FiniteSets, TLC

\* ------------------------------------------------------------------ text

\* The value of a one-element set.  {e(x) : x \in {v}} evaluates v once and
\* binds x to its value, as an assignment to a local variable does.
Value(S) == CHOOSE v \in S : TRUE

Digits == {"0", "1", "2", "3", "4", "5", "6", "7", "8", "9"}

\* What \s matches among the characters of the model's texts.
Whitespace == {" ", "\n", "\t"}

DigitValue(c) ==
    CASE c = "0" -> 0 [] c = "1" -> 1 [] c = "2" -> 2 [] c = "3" -> 3
      [] c = "4" -> 4 [] c = "5" -> 5 [] c = "6" -> 6 [] c = "7" -> 7
      [] c = "8" -> 8 [] c = "9" -> 9

DigitChar(d) ==
    CASE d = 0 -> "0" [] d = 1 -> "1" [] d = 2 -> "2" [] d = 3 -> "3"
      [] d = 4 -> "4" [] d = 5 -> "5" [] d = 6 -> "6" [] d = 7 -> "7"
      [] d = 8 -> "8" [] d = 9 -> "9"

Min(S) == CHOOSE m \in S : \A x \in S : m <= x

\* The first position >= i at which sub occurs in s, or 0.
Find(s, sub, i) ==
    Value({IF at = {} THEN 0 ELSE Min(at)
           : at \in {{k \in i..(Len(s) - Len(sub) + 1) :
                          SubSeq(s, k, k + Len(sub) - 1) = sub}}})

\* Python's `sub in s`.
Contains(s, sub) == Find(s, sub, 1) # 0

\* Python's s.split(sep): the parts of s between the occurrences of sep.
RECURSIVE Split(_, _)
Split(s, sep) ==
    Value({Value({IF p = 0 THEN <<t>>
                  ELSE <<SubSeq(t, 1, p - 1)>>
                       \o Split(SubSeq(t, p + Len(sep), Len(t)), sep)
                  : p \in {Find(t, sep, 1)}})
           : t \in {s}})

\* Python's s.split(sep, 1): at most one split.
SplitOnce(s, sep) ==
    Value({Value({IF p = 0 THEN <<t>>
                  ELSE <<SubSeq(t, 1, p - 1), SubSeq(t, p + Len(sep), Len(t))>>
                  : p \in {Find(t, sep, 1)}})
           : t \in {s}})

\* Python's s.strip() for the whitespace of the model.
RECURSIVE Strip(_)
Strip(s) ==
    Value({IF t = <<>> THEN t
           ELSE IF Head(t) \in Whitespace THEN Strip(Tail(t))
           ELSE IF t[Len(t)] \in Whitespace THEN Strip(SubSeq(t, 1, Len(t) - 1))
           ELSE t
           : t \in {s}})

AllDigits(s) == \A k \in 1..Len(s) : s[k] \in Digits

\* A digit run as int() and float() read it: digits, with single underscores
\* allowed between two digits.
DigitRun(s) ==
    /\ s # <<>>
    /\ s[1] \in Digits /\ s[Len(s)] \in Digits
    /\ \A k \in 1..Len(s) : s[k] \in Digits \cup {"_"}
    /\ \A k \in 1..(Len(s) - 1) : ~(s[k] = "_" /\ s[k + 1] = "_")

RECURSIVE DigitsValue(_)
DigitsValue(s) ==
    Value({IF t = <<>> THEN 0
           ELSE IF t[Len(t)] = "_" THEN DigitsValue(SubSeq(t, 1, Len(t) - 1))
           ELSE 10 * DigitsValue(SubSeq(t, 1, Len(t) - 1)) + DigitValue(t[Len(t)])
           : t \in {s}})

\* Python's str(n) for n >= 0.
RECURSIVE IntToStr(_)
IntToStr(n) ==
    Value({IF m < 10 THEN <<DigitChar(m)>>
           ELSE IntToStr(m \div 10) \o <<DigitChar(m % 10)>>
           : m \in {n}})

\* Python's int(s): surrounding whitespace and one sign are allowed, the rest
\* must be a digit run; anything else raises ValueError (ok = FALSE).
ParseInt(s) ==
    Value({LET signed == t # <<>> /\ Head(t) \in {"+", "-"}
               body == IF signed THEN Tail(t) ELSE t
           IN  IF DigitRun(body)
               THEN [ok |-> TRUE,
                     val |-> IF signed /\ Head(t) = "-" THEN 0 - DigitsValue(body)
                             ELSE DigitsValue(body)]
               ELSE [ok |-> FALSE, val |-> 0]
           : t \in {Strip(s)}})

\* A float: a special value ("inf", "nan") or, for sp = "fin", the number
\* mant * 10^(-scale) with the sign neg, mant not divisible by 10 unless 0.
Float(sp, neg, mant, scale) == [sp |-> sp, neg |-> neg, mant |-> mant, scale |-> scale]

RECURSIVE Normal(_, _, _)
Normal(neg, mant, scale) ==
    Value({IF m = 0 THEN Float("fin", neg, 0, 0)
           ELSE IF m % 10 = 0 THEN Normal(neg, m \div 10, sc - 1)
           ELSE Float("fin", neg, m, sc)
           : m \in {mant}, sc \in {scale}})

LowerChar(c) ==
    CASE c = "I" -> "i" [] c = "N" -> "n" [] c = "F" -> "f" [] c = "A" -> "a"
      [] c = "T" -> "t" [] c = "Y" -> "y" [] c = "E" -> "e" [] OTHER -> c

Lower(s) == [k \in 1..Len(s) |-> LowerChar(s[k])]

\* Python's float(s): surrounding whitespace and one sign are allowed; then
\* inf, infinity or nan in any case, or digits with an optional point and an
\* optional exponent.  ok = FALSE where float() raises ValueError.
\* The unsigned, lower-case text `body` as a float of sign neg.
ParseUnsigned(neg, body) ==
    Value({Value({
        LET ip == ip_fp[1]
            fp == IF Len(ip_fp) = 2 THEN ip_fp[2] ELSE <<>>
            ex == IF Len(me) = 2 THEN ParseInt(me[2]) ELSE [ok |-> TRUE, val |-> 0]
            exok == Len(me) = 1 \/ (/\ me[2] # <<>>
                                    /\ me[2][1] \notin Whitespace
                                    /\ me[2][Len(me[2])] \notin Whitespace
                                    /\ ex.ok)
        IN  IF /\ (ip = <<>> \/ DigitRun(ip))
               /\ (fp = <<>> \/ DigitRun(fp))
               /\ (ip # <<>> \/ fp # <<>>)
               /\ exok
            THEN [ok |-> TRUE,
                  val |-> Normal(neg, DigitsValue(ip \o fp), Len(fp) - ex.val)]
            ELSE [ok |-> FALSE, val |-> Float("nan", FALSE, 0, 0)]
        : ip_fp \in {SplitOnce(me[1], <<".">>)}})
      : me \in {SplitOnce(body, <<"e">>)}})

ParseFloat(s) ==
    Value({LET signed == t # <<>> /\ Head(t) \in {"+", "-"}
               neg == signed /\ Head(t) = "-"
               body == Lower(IF signed THEN Tail(t) ELSE t)
           IN  IF body \in {<<"i", "n", "f">>,
                            <<"i", "n", "f", "i", "n", "i", "t", "y">>}
               THEN [ok |-> TRUE, val |-> Float("inf", neg, 0, 0)]
               ELSE IF body = <<"n", "a", "n">>
               THEN [ok |-> TRUE, val |-> Float("nan", neg, 0, 0)]
               ELSE ParseUnsigned(neg, body)
           : t \in {Strip(s)}})

RECURSIVE Join(_, _)
Join(parts, sep) ==
    Value({IF ps = <<>> THEN <<>>
           ELSE IF Len(ps) = 1 THEN ps[1]
           ELSE ps[1] \o sep \o Join(Tail(ps), sep)
           : ps \in {parts}})

\* ----------------------------------------------------- regular expressions

Lit(s) == [t |-> "lit", s |-> s]
Cls(c) == [t |-> "cls", c |-> c]
Cat(a) == [t |-> "cat", a |-> a]
Alt(a) == [t |-> "alt", a |-> a]
Star(r) == [t |-> "star", r |-> r]
Plus(r) == [t |-> "plus", r |-> r]
Opt(r) == [t |-> "opt", r |-> r]

\* \d, \D, \s and "." (any character but a newline).
InClass(c, ch) ==
    CASE c = "d" -> ch \in Digits
      [] c = "D" -> ch \notin Digits
      [] c = "s" -> ch \in Whitespace
      [] c = "." -> ch # "\n"

\* A greedy repetition of one character class from i, at least `least`
\* times: the longest run first, then each shorter one.
ClassRun(c, s, i, least) ==
    Value({[j \in 1..(e - i - least + 1) |-> e - j + 1]
           : e \in {Min({k \in i..(Len(s) + 1) :
                            k = Len(s) + 1 \/ ~InClass(c, s[k])})}})

\* The concatenation of the sequences seqs[lo], ..., seqs[hi].
RECURSIVE Flat(_, _, _)
Flat(seqs, lo, hi) ==
    IF lo > hi THEN <<>>
    ELSE IF lo = hi THEN seqs[lo]
    ELSE Flat(seqs, lo, (lo + hi) \div 2) \o Flat(seqs, (lo + hi) \div 2 + 1, hi)

RECURSIVE Match(_, _, _), MatchCat(_, _, _, _), MatchEach(_, _, _)

\* The end positions (the index after the last matched character) of the
\* matches of r in s starting at i, in backtracking order: alternatives left
\* to right, repetitions greedy.
Match(r, s, i) ==
    CASE r.t = "lit" ->
           IF i + Len(r.s) - 1 <= Len(s) /\ SubSeq(s, i, i + Len(r.s) - 1) = r.s
           THEN <<i + Len(r.s)>> ELSE <<>>
      [] r.t = "cls" ->
           IF i <= Len(s) /\ InClass(r.c, s[i]) THEN <<i + 1>> ELSE <<>>
      [] r.t = "cat" -> MatchCat(r.a, Len(r.a), s, i)
      [] r.t = "alt" -> Flat([k \in 1..Len(r.a) |-> Match(r.a[k], s, i)], 1, Len(r.a))
      [] r.t = "star" ->
           IF r.r.t = "cls" THEN ClassRun(r.r.c, s, i, 0)
           ELSE MatchEach(r, s, Match(r.r, s, i)) \o <<i>>
      [] r.t = "plus" ->
           IF r.r.t = "cls" THEN ClassRun(r.r.c, s, i, 1)
           ELSE MatchEach(Star(r.r), s, Match(r.r, s, i))
      [] r.t = "opt" -> Match(r.r, s, i) \o <<i>>

\* The matches of r from each of the positions `from`, in their order.
MatchEach(r, s, from) ==
    CHOOSE ends \in {Flat([j \in 1..Len(f) |-> Match(r, s, f[j])], 1, Len(f))
                     : f \in {from}} : TRUE

\* The matches of the first k items of the concatenation a from i.
MatchCat(a, k, s, i) ==
    IF k = 0 THEN <<i>>
    ELSE MatchEach(a[k], s, MatchCat(a, k - 1, s, i))

Range(f) == {f[k] : k \in DOMAIN f}

\* re.findall from position i: the leftmost match, the first in backtracking
\* order, then on from its end (for a pattern that matches no empty string).
RECURSIVE FindAll(_, _, _)
FindAll(r, s, i0) ==
    Value({IF starts = {} THEN <<>>
           ELSE Value({<<SubSeq(s, Min(starts), Head(m) - 1)>> \o FindAll(r, s, Head(m))
                       : m \in {Match(r, s, Min(starts))}})
           : starts \in {{k \in i0..Len(s) : Match(r, s, k) # <<>>}}})

\* ------------------------------------------------------------------ grammar

D1 == Plus(Cls("d"))

\* control=\((\d+,|\d+(, \d+)+)\)  as an optional group
ControlGroup ==
    Opt(Cat(<<Lit(<<",", " ", "c", "o", "n", "t", "r", "o", "l", "=", "(">>),
              Alt(<<Cat(<<D1, Lit(<<",">>)>>),
                    Cat(<<D1, Plus(Cat(<<Lit(<<",", " ">>), D1>>))>>)>>),
              Lit(<<")">>)>>))

TargetOne == Cat(<<Lit(<<"(", "t", "a", "r", "g", "e", "t", "=", "(">>), D1, Lit(<<",", ")">>)>>)

NP_ONEQ_GATES_REGEX ==
    Cat(<<Alt(<<Lit(<<"X">>), Lit(<<"Y">>), Lit(<<"Z">>), Lit(<<"H">>)>>),
          TargetOne, ControlGroup, Lit(<<")">>)>>)

P_ONEQ_GATES_REGEX ==
    Cat(<<Alt(<<Lit(<<"P", "h", "a", "s", "e">>), Lit(<<"R", "x">>),
                Lit(<<"R", "y">>), Lit(<<"R", "z">>)>>),
          TargetOne, ControlGroup,
          Lit(<<",", " ", "p", "a", "r", "a", "m", "e", "t", "e", "r", "=">>),
          Alt(<<Cat(<<D1, Cls("."), Star(Cls("d"))>>), Star(Cls("D"))>>),
          Lit(<<")">>)>>)

SWAP_GATE_REGEX ==
    Cat(<<Lit(<<"S", "W", "A", "P">>),
          Lit(<<"(", "t", "a", "r", "g", "e", "t", "=", "(">>),
          Star(Cls("d")), Lit(<<",", " ">>), Star(Cls("d")), Lit(<<")">>),
          Opt(Cat(<<Lit(<<",", " ", "c", "o", "n", "t", "r", "o", "l", "=", "(">>),
                    Alt(<<Cat(<<D1, Lit(<<",">>)>>),
                          Cat(<<D1, Plus(Cat(<<Lit(<<",", " ">>), D1>>))>>),
                          Lit(<<>>)>>),
                    Lit(<<")">>)>>)),
          Lit(<<")">>)>>)

\* f'({NP_ONEQ_GATES_REGEX}|{P_ONEQ_GATES_REGEX}|{SWAP_GATE_REGEX})'
gate_regex == Alt(<<NP_ONEQ_GATES_REGEX, P_ONEQ_GATES_REGEX, SWAP_GATE_REGEX>>)

\* -------------------------------------------------------------- validator

\* create_multiline_regex(options, first_line): the first line, then one or
\* more occurrences of one of the options, with whitespace as the only
\* separator.
create_multiline_regex(options, first_line) ==
    Cat(<<Lit(first_line), Star(Cls("s")),
          Plus(Cat(<<Alt(options), Star(Cls("s"))>>))>>)

circuit_pattern ==
    create_multiline_regex(
        <<NP_ONEQ_GATES_REGEX, P_ONEQ_GATES_REGEX, SWAP_GATE_REGEX>>,
        <<"c", "i", "r", "c", "u", "i", "t", ":">>)

\* pattern.match(s) for a pattern that ends in $: a match from the start of s
\* that ends at the end of s, or just before a final newline.
MatchToEnd(r, s) ==
    \E e \in Range(Match(r, s, 1)) :
        \/ e = Len(s) + 1
        \/ e = Len(s) /\ s[Len(s)] = "\n"

\* pattern.search(s) for the same pattern without the ^: the match may start
\* anywhere.
SearchToEnd(r, s) == \E i \in 1..Len(s) : MatchToEnd(r, SubSeq(s, i, Len(s)))

validate_search(circuit) == SearchToEnd(circuit_pattern, circuit)

validate_circuit_syntax(circuit) == MatchToEnd(circuit_pattern, circuit)

\* ------------------------------------------------------- field extractors

Raise(e) == [ok |-> FALSE, err |-> e, val |-> <<>>]
Return(v) == [ok |-> TRUE, err |-> "", val |-> v]

\* [int(n) for n in parts]: the first token that is no integer raises.
RECURSIVE ParseInts(_)
ParseInts(parts) ==
    Value({IF ps = <<>> THEN Return(<<>>)
           ELSE Value({IF ~h.ok THEN Raise("ValueError")
                       ELSE Value({IF rest.ok THEN Return(<<h.val>> \o rest.val)
                                   ELSE rest
                                   : rest \in {ParseInts(Tail(ps))}})
                       : h \in {ParseInt(Head(ps))}})
           : ps \in {parts}})

get_one_gate_data_from_string(string, data) ==
    Value({IF Len(halves) < 2 THEN Raise("IndexError")
           ELSE Value({Value({ParseInts(IF parts[Len(parts)] = <<>>
                                        THEN SubSeq(parts, 1, Len(parts) - 1)
                                        ELSE parts)
                              : parts \in {Split(target_area, <<",">>)}})
                       : target_area \in {Split(halves[2], <<")">>)[1]}})
           : halves \in {SplitOnce(string, data \o <<"=", "(">>)}})

\* A gate's parameter: absent (None), a float or a string.
NoParameter == [kind |-> "none", str |-> <<>>, num |-> Float("fin", FALSE, 0, 0)]
FloatParameter(f) == [kind |-> "float", str |-> <<>>, num |-> f]
StrParameter(t) == [kind |-> "str", str |-> t, num |-> Float("fin", FALSE, 0, 0)]

\* The parameter token as the grammar delimits it: all that follows
\* "parameter=" up to the gate's closing bracket.
ParameterToken(string) ==
    LET halves == SplitOnce(string, <<"p", "a", "r", "a", "m", "e", "t", "e", "r", "=">>)
    IN  SubSeq(halves[2], 1, Len(halves[2]) - 1)

get_gate_parameter(string) ==
    Value({IF Len(halves) < 2 THEN Raise("IndexError")
           ELSE Value({Value({IF float_parameter.ok
                              THEN Return(FloatParameter(float_parameter.val))
                              ELSE Return(StrParameter(string_patrameter))
                              : float_parameter \in {ParseFloat(string_patrameter)}})
                       : string_patrameter \in {Split(halves[2], <<")">>)[1]}})
           : halves \in {SplitOnce(string,
                            <<"p", "a", "r", "a", "m", "e", "t", "e", "r", "=">>)}})

\* -------------------------------------------------------- record builder

\* An optional qubit list: None, or a list.
None == [some |-> FALSE, val |-> <<>>]
Some(v) == [some |-> TRUE, val |-> v]

GateDict(name, target, control, parameter) ==
    [name |-> name, target |-> target, control |-> control, parameter |-> parameter]

\* `'control' in string`
HasControlText(string) == Contains(string, <<"c", "o", "n", "t", "r", "o", "l">>)

\* `'parameter' in string`
HasParameterText(string) ==
    Contains(string, <<"p", "a", "r", "a", "m", "e", "t", "e", "r">>)

\* Lines 185 to 187: None, or the control qubits.
ControlOf(string) ==
    IF HasControlText(string)
    THEN Value({IF c.ok THEN Return(Some(c.val)) ELSE Raise(c.err)
                : c \in {get_one_gate_data_from_string(
                             string, <<"c", "o", "n", "t", "r", "o", "l">>)}})
    ELSE Return(None)

\* Lines 188 to 190: None, or the parameter.
ParameterOf(string) ==
    IF HasParameterText(string) THEN get_gate_parameter(string)
    ELSE Return(NoParameter)

gate_string_to_dict(string) ==
    Value({IF ~target.ok THEN Raise(target.err)
           ELSE Value({IF ~control.ok THEN Raise(control.err)
                       ELSE Value({IF ~parameter.ok THEN Raise(parameter.err)
                                   ELSE Return(GateDict(SplitOnce(string, <<"(">>)[1],
                                                        target.val, control.val,
                                                        parameter.val))
                                   : parameter \in {ParameterOf(string)}})
                       : control \in {ControlOf(string)}})
           : target \in {get_one_gate_data_from_string(
                             string, <<"t", "a", "r", "g", "e", "t">>)}})

\* ----------------------------------------------------------- materializer

\* A gate object of the circuit library: its name, its target and control
\* qubits and its parameter.
QGate(name, target, control, parameter) ==
    [name |-> name, target |-> target, control |-> control, parameter |-> parameter]

NoGate == QGate(<<>>, <<>>, <<>>, NoParameter)

\* What a call ends in: a returned value (res = "value"), a returned None
\* (res = "none") or a raised exception (res = "raise", err its class).
Raised(e) == [res |-> "raise", err |-> e, gate |-> NoGate]
Returned(g) == [res |-> "value", err |-> "", gate |-> g]
ReturnedNone == [res |-> "none", err |-> "", gate |-> NoGate]

\* SharesQubit with only the first target compared to the controls.
SharesQubitFirstOnly(gate) ==
    /\ gate.control.some
    /\ gate.control.val # <<>>
    /\ gate.target # <<>>
    /\ gate.target[1] \in Range(gate.control.val)

\* gate.control and set(gate.target) & set(gate.control)
SharesQubit(gate) ==
    /\ gate.control.some
    /\ gate.control.val # <<>>
    /\ Range(gate.target) \cap Range(gate.control.val) # {}

\* The gate names of lines 209, 212, 215 and 217.
FixedNames == {<<"X">>, <<"Y">>, <<"Z">>, <<"H">>}
RotationNames == {<<"R", "x">>, <<"R", "y">>, <<"R", "z">>}
PhaseNames == {<<"P", "h", "a", "s", "e">>}
SwapNames == {<<"S", "W", "A", "P">>}
SupportedNames == FixedNames \cup RotationNames \cup PhaseNames \cup SwapNames

\* The dispatch on the gate's name, lines 209 to 220.
Dispatch(gate) ==
    LET control == gate.control.val
    IN  IF gate.name \in FixedNames
        THEN Returned(QGate(gate.name, gate.target, control, NoParameter))
        ELSE IF gate.name \in RotationNames
        THEN Returned(QGate(gate.name, gate.target, control, gate.parameter))
        ELSE IF gate.name \in PhaseNames
        THEN Returned(QGate(gate.name, gate.target, control, gate.parameter))
        ELSE IF gate.name \in SwapNames
        THEN IF Len(gate.target) # 2 THEN Raised("ValueError")
             ELSE Returned(QGate(gate.name, gate.target, control, NoParameter))
        ELSE ReturnedNone

gate_from_gate_dict(gate) ==
    IF SharesQubit(gate) THEN Raised("SameControlAndTarget") ELSE Dispatch(gate)

\* ------------------------------------------------- the circuit library

Max(S) == CHOOSE m \in S : \A x \in S : x <= m

QubitsOf(g) == Range(g.target) \cup Range(g.control)

\* QCircuit.n_qubits: one more than the largest qubit index in use.
n_qubits(c) ==
    LET qs == UNION {QubitsOf(c[k]) : k \in 1..Len(c)}
    IN  IF qs = {} THEN 0 ELSE Max(qs) + 1

\* The layer of the k-th gate: one after the latest earlier gate that shares
\* a qubit with it.
RECURSIVE Layer(_, _)
Layer(c, k) ==
    Value({IF before = {} THEN 1 ELSE Max({Layer(c, j) : j \in before}) + 1
           : before \in {{j \in 1..(k - 1) : QubitsOf(c[j]) \cap QubitsOf(c[k]) # {}}}})

\* QCircuit.depth
depth(c) == IF c = <<>> THEN 0 ELSE Max({Layer(c, k) : k \in 1..Len(c)})

\* The keys of QCircuit.make_parameter_map(): the variables of the circuit.
make_parameter_map(c) ==
    {c[k].parameter.str : k \in {j \in 1..Len(c) : c[j].parameter.kind = "str"}}

CircuitInfo(c) ==
    [qubit_count |-> n_qubits(c),
     gate_depth |-> depth(c),
     gate_count |-> Len(c),
     parameter_count |-> Cardinality(make_parameter_map(c))]

\* str() of a tuple of qubit indices: (0,) and (0, 1).
PrintTuple(t) ==
    <<"(">> \o Join([k \in 1..Len(t) |-> IntToStr(t[k])], <<",", " ">>)
            \o (IF Len(t) = 1 THEN <<",">> ELSE <<>>) \o <<")">>

\* repr() of a float of moderate size: 0.5, -1.0, 1.57.
PrintFloat(f) ==
    LET whole == IF f.scale <= 0 THEN f.mant * (10 ^ (0 - f.scale))
                 ELSE f.mant \div (10 ^ f.scale)
        frac == IF f.scale <= 0 THEN 0 ELSE f.mant % (10 ^ f.scale)
        fd == IntToStr(frac)
        pad == IF f.scale <= 0 THEN <<>>
               ELSE [k \in 1..(f.scale - Len(fd)) |-> "0"]
    IN  (IF f.neg THEN <<"-">> ELSE <<>>) \o IntToStr(whole) \o <<".">> \o pad \o fd

PrintParameter(p) == IF p.kind = "float" THEN PrintFloat(p.num) ELSE p.str

\* The printer's text of one gate.
PrintGate(g) ==
    g.name
    \o <<"(", "t", "a", "r", "g", "e", "t", "=">> \o PrintTuple(g.target)
    \o (IF g.control = <<>> THEN <<>>
        ELSE <<",", " ", "c", "o", "n", "t", "r", "o", "l", "=">> \o PrintTuple(g.control))
    \o (IF g.parameter.kind = "none" THEN <<>>
        ELSE <<",", " ", "p", "a", "r", "a", "m", "e", "t", "e", "r", "=">>
             \o PrintParameter(g.parameter))
    \o <<")">>

\* Lines of text, each ended by a newline.
RECURSIVE Lines(_)
Lines(ls) ==
    Value({IF l = <<>> THEN <<>> ELSE Head(l) \o <<"\n">> \o Lines(Tail(l))
           : l \in {ls}})

\* The printer's text of a circuit: the header line, then a line per gate.
PrintCircuit(c) ==
    <<"c", "i", "r", "c", "u", "i", "t", ":", "\n">>
    \o Lines([k \in 1..Len(c) |-> PrintGate(c[k])])

\* ------------------------------------------------------------------ inputs

\* The most gates in a circuit or a text.
MaxGates == 2

Half == Float("fin", FALSE, 5, 1)
MinusHalf == Float("fin", TRUE, 5, 1)

\* Gates of the nine supported kinds: controlled and not, with a two-digit
\* qubit, with positive and negative angles and with variables.
SampleGates ==
    {QGate(<<"X">>, <<0>>, <<>>, NoParameter),
     QGate(<<"Y">>, <<1>>, <<0>>, NoParameter),
     QGate(<<"Z">>, <<2>>, <<0, 1>>, NoParameter),
     QGate(<<"H">>, <<10>>, <<>>, NoParameter),
     QGate(<<"R", "x">>, <<0>>, <<>>, FloatParameter(Half)),
     QGate(<<"R", "y">>, <<1>>, <<0>>, StrParameter(<<"a">>)),
     QGate(<<"R", "z">>, <<0>>, <<>>, FloatParameter(MinusHalf)),
     QGate(<<"P", "h", "a", "s", "e">>, <<1>>, <<>>, StrParameter(<<"b">>)),
     QGate(<<"S", "W", "A", "P">>, <<0, 1>>, <<>>, NoParameter),
     QGate(<<"S", "W", "A", "P">>, <<1, 2>>, <<0>>, NoParameter)}

SeqsUpTo(S, n) == UNION {[1..k -> S] : k \in 0..n}

Circuits == SeqsUpTo(SampleGates, MaxGates)

\* Gate texts as a user may type them: at the edges of the grammar and
\* outside it.
TypedGateTexts ==
    {<<"S", "W", "A", "P", "(", "t", "a", "r", "g", "e", "t", "=", "(", ",", " ", ")", ")">>,
     <<"S", "W", "A", "P", "(", "t", "a", "r", "g", "e", "t", "=", "(", "0", ",", " ", "1", ")", ",", " ", "c", "o", "n", "t", "r", "o", "l", "=", "(", ")", ")">>,
     <<"R", "z", "(", "t", "a", "r", "g", "e", "t", "=", "(", "0", ",", ")", ",", " ", "p", "a", "r", "a", "m", "e", "t", "e", "r", "=", "f", "(", "a", ")", ")">>,
     <<"R", "x", "(", "t", "a", "r", "g", "e", "t", "=", "(", "0", ",", ")", ",", " ", "p", "a", "r", "a", "m", "e", "t", "e", "r", "=", "c", "o", "n", "t", "r", "o", "l", ")">>,
     <<"R", "x", "(", "t", "a", "r", "g", "e", "t", "=", "(", "1", ",", ")", ",", " ", "p", "a", "r", "a", "m", "e", "t", "e", "r", "=", "t", "h", "e", "t", "a", ")">>,
     <<"R", "x", "(", "t", "a", "r", "g", "e", "t", "=", "(", "0", ",", ")", ",", " ", "p", "a", "r", "a", "m", "e", "t", "e", "r", "=", "1", ".", "5", "7", ")">>,
     <<"R", "y", "(", "t", "a", "r", "g", "e", "t", "=", "(", "0", ",", ")", ",", " ", "p", "a", "r", "a", "m", "e", "t", "e", "r", "=", "i", "n", "f", ")">>,
     <<"X", "(", "t", "a", "r", "g", "e", "t", "=", "(", "0", ",", ")", ",", " ", "c", "o", "n", "t", "r", "o", "l", "=", "(", "0", ",", ")", ")">>,
     <<"X", "(", "t", "a", "r", "g", "e", "t", "=", "(", "0", ")", ")">>,
     <<"h", "e", "l", "l", "o", ")">>}

GateTexts == {PrintGate(g) : g \in SampleGates} \cup TypedGateTexts

\* The header line, the same without its colon, and the same after a space.
Headers ==
    {<<"c", "i", "r", "c", "u", "i", "t", ":", "\n">>,
     <<"c", "i", "r", "c", "u", "i", "t", "\n">>,
     <<" ", "c", "i", "r", "c", "u", "i", "t", ":", "\n">>}

\* Gate records as a caller may construct them, of supported names and not.
RecordNames ==
    {<<"X">>, <<"R", "x">>, <<"P", "h", "a", "s", "e">>, <<"S", "W", "A", "P">>,
     <<"C", "N", "O", "T">>, <<"T">>}

RecordArgs ==
    {GateDict(n, t, c, p) :
        n \in RecordNames,
        t \in {<<0>>, <<1>>, <<0, 1>>},
        c \in {None, Some(<<>>), Some(<<0>>), Some(<<1>>), Some(<<1, 2>>)},
        p \in {NoParameter, FloatParameter(Half), StrParameter(<<"a">>)}}

\* ------------------------------------------------------------- the program

VARIABLES
    call,       \* the function called: "circuit_from_string",
                \* "gate_string_to_dict" or "gate_from_gate_dict"
    text,       \* its string argument
    origin,     \* where the text is from: the circuit it was printed from,
                \* or the lines it was typed as
    arg,        \* the GateDict argument of gate_from_gate_dict
    pc,         \* the position in the called function
    valid,      \* what validate_circuit_syntax returned
    gates,      \* circuit_from_string's gates when they are substrings
    records,    \* circuit_from_string's gates when they are records
    circuit,    \* circuit_from_string's circuit: the gates composed so far
    i,          \* the index of the next gate to append
    dispatched, \* gate_from_gate_dict reached its dispatch on the name
    result      \* what the caller has received

vars == <<call, text, origin, arg, pc, valid, gates, records, circuit, i,
          dispatched, result>>

NoRecord == GateDict(<<>>, <<>>, None, NoParameter)

\* What the caller has received: nothing yet ("pending"), a circuit, a gate
\* record, None, or an exception.
Outcome(kind, err, c, r) == [kind |-> kind, err |-> err, circuit |-> c, record |-> r]
Pending == Outcome("pending", "", <<>>, NoRecord)
GotCircuit(c) == Outcome("circuit", "", c, NoRecord)
GotRecord(r) == Outcome("record", "", <<>>, r)
GotNone == Outcome("none", "", <<>>, NoRecord)
GotError(e) == Outcome("raise", e, <<>>, NoRecord)

NoOrigin == [printed |-> FALSE, circuit |-> <<>>, lines |-> <<>>]

Locals ==
    /\ valid = FALSE
    /\ gates = <<>>
    /\ records = <<>>
    /\ circuit = <<>>
    /\ i = 0
    /\ dispatched = FALSE
    /\ result = Pending

\* circuit_from_string(str(c)) for a circuit c of the library.
InitPrinted ==
    /\ call = "circuit_from_string"
    /\ \E c \in Circuits :
        /\ origin = [printed |-> TRUE, circuit |-> c,
                     lines |-> [k \in 1..Len(c) |-> PrintGate(c[k])]]
        /\ text = PrintCircuit(c)
    /\ arg = NoRecord
    /\ pc = "validate"
    /\ Locals

\* circuit_from_string(text) for a text typed as a header and lines.
InitTyped ==
    /\ call = "circuit_from_string"
    /\ \E h \in Headers, ls \in SeqsUpTo(TypedGateTexts, MaxGates) :
        /\ origin = [printed |-> FALSE, circuit |-> <<>>, lines |-> ls]
        /\ text = h \o Lines(ls)
    /\ arg = NoRecord
    /\ pc = "validate"
    /\ Locals

\* gate_string_to_dict(text) for one gate text.
InitRecord ==
    /\ call = "gate_string_to_dict"
    /\ origin = NoOrigin
    /\ text \in GateTexts
    /\ arg = NoRecord
    /\ pc = "build"
    /\ Locals

\* gate_from_gate_dict(arg) for a record the caller constructed.
InitGate ==
    /\ call = "gate_from_gate_dict"
    /\ origin = NoOrigin
    /\ text = <<>>
    /\ arg \in RecordArgs
    /\ pc = "check"
    /\ Locals

Init == InitPrinted \/ InitTyped \/ InitRecord \/ InitGate

\* Line 238-239: the syntax check.
Validate ==
    /\ call = "circuit_from_string" /\ pc = "validate"
    /\ valid' = validate_circuit_syntax(text)
    /\ IF valid'
       THEN pc' = "scan" /\ result' = result
       ELSE pc' = "done" /\ result' = GotError("InvalidSyntaxError")
    /\ UNCHANGED <<call, text, origin, arg, gates, records, circuit, i, dispatched>>

\* Lines 240-244: all the gate substrings.
Scan ==
    /\ call = "circuit_from_string" /\ pc = "scan"
    /\ gates' = FindAll(gate_regex, text, 1)
    /\ pc' = "records"
    /\ UNCHANGED <<call, text, origin, arg, valid, records, circuit, i, dispatched, result>>

\* [gate_string_to_dict(g[0]) for g in gates]: the records, or the first error.
RECURSIVE BuildAll(_)
BuildAll(gs) ==
    Value({IF g = <<>> THEN Return(<<>>)
           ELSE Value({IF ~h.ok THEN Raise(h.err)
                       ELSE Value({IF rest.ok THEN Return(<<h.val>> \o rest.val)
                                   ELSE rest
                                   : rest \in {BuildAll(Tail(g))}})
                       : h \in {gate_string_to_dict(Head(g))}})
           : g \in {gs}})

\* Lines 245-247: the records, and None when there is none.
Records ==
    /\ call = "circuit_from_string" /\ pc = "records"
    /\ \E built \in {BuildAll(gates)} :
           IF ~built.ok
           THEN records' = records /\ pc' = "done" /\ result' = GotError(built.err)
           ELSE IF built.val = <<>>
           THEN records' = built.val /\ pc' = "done" /\ result' = GotNone
           ELSE records' = built.val /\ pc' = "first" /\ result' = result
    /\ UNCHANGED <<call, text, origin, arg, valid, gates, circuit, i, dispatched>>

\* The exception a circuit of the library raises when something that is no
\* circuit is added to it.
AddError == "TypeError"

\* Line 248: the circuit is the first gate.
First ==
    /\ call = "circuit_from_string" /\ pc = "first"
    /\ \E g \in {gate_from_gate_dict(records[1])} :
           IF g.res = "raise"
           THEN circuit' = circuit /\ i' = i /\ pc' = "done" /\ result' = GotError(g.err)
           ELSE IF g.res = "none"
           THEN circuit' = circuit /\ i' = i /\ pc' = "done"
                /\ result' = IF Len(records) = 1 THEN GotNone ELSE GotError(AddError)
           ELSE circuit' = <<g.gate>> /\ i' = 2 /\ pc' = "loop" /\ result' = result
    /\ UNCHANGED <<call, text, origin, arg, valid, gates, records, dispatched>>

\* LoopFailure with the exception swallowed: the circuit
\* built so far is returned.
LoopFailureReturnsPrefix(e, built) == GotCircuit(built)

\* What the loop does when a gate cannot be materialized: the exception
\* leaves circuit_from_string and its circuit is dropped.
LoopFailure(e, built) == GotError(e)

\* Lines 249-250: one more gate is appended.
AppendGate ==
    /\ call = "circuit_from_string" /\ pc = "loop" /\ i <= Len(records)
    /\ \E g \in {gate_from_gate_dict(records[i])} :
           IF g.res = "raise"
           THEN circuit' = circuit /\ i' = i /\ pc' = "done"
                /\ result' = LoopFailure(g.err, circuit)
           ELSE IF g.res = "none"
           THEN circuit' = circuit /\ i' = i /\ pc' = "done"
                /\ result' = LoopFailure(AddError, circuit)
           ELSE circuit' = Append(circuit, g.gate) /\ i' = i + 1 /\ pc' = "loop"
                /\ result' = result
    /\ UNCHANGED <<call, text, origin, arg, valid, gates, records, dispatched>>

\* Line 251: the finished circuit is returned.
ReturnCircuit ==
    /\ call = "circuit_from_string" /\ pc = "loop" /\ i > Len(records)
    /\ pc' = "done"
    /\ result' = GotCircuit(circuit)
    /\ UNCHANGED <<call, text, origin, arg, valid, gates, records, circuit, i, dispatched>>

\* gate_string_to_dict, called on one gate text.
BuildRecord ==
    /\ call = "gate_string_to_dict" /\ pc = "build"
    /\ \E r \in {gate_string_to_dict(text)} :
           result' = IF r.ok THEN GotRecord(r.val) ELSE GotError(r.err)
    /\ pc' = "done"
    /\ UNCHANGED <<call, text, origin, arg, valid, gates, records, circuit, i, dispatched>>

\* Lines 207-208 of gate_from_gate_dict.
CheckDisjoint ==
    /\ call = "gate_from_gate_dict" /\ pc = "check"
    /\ IF SharesQubit(arg)
       THEN pc' = "done" /\ result' = GotError("SameControlAndTarget")
       ELSE pc' = "dispatch" /\ result' = result
    /\ UNCHANGED <<call, text, origin, arg, valid, gates, records, circuit, i, dispatched>>

\* Lines 209-220 of gate_from_gate_dict.
DispatchByName ==
    /\ call = "gate_from_gate_dict" /\ pc = "dispatch"
    /\ dispatched' = TRUE
    /\ \E g \in {Dispatch(arg)} :
           result' = IF g.res = "raise" THEN GotError(g.err)
                     ELSE IF g.res = "none" THEN GotNone
                     ELSE GotCircuit(<<g.gate>>)
    /\ pc' = "done"
    /\ UNCHANGED <<call, text, origin, arg, valid, gates, records, circuit, i>>

Next ==
    \/ Validate
    \/ Scan
    \/ Records
    \/ First
    \/ AppendGate
    \/ ReturnCircuit
    \/ BuildRecord
    \/ CheckDisjoint
    \/ DispatchByName

Spec == Init /\ [][Next]_vars

\* ------------------------------------------------------------------ claims

ParseCall == call = "circuit_from_string"
RecordCall == call = "gate_string_to_dict"
GateCall == call = "gate_from_gate_dict"

\* The whole of l is one match of the pattern r.
FullMatch(r, l) == (Len(l) + 1) \in Range(Match(r, l, 1))

\* l is one gate occurrence: the whole of it matches one of the families.
IsGate(l) == FullMatch(gate_regex, l)

IsParametrized(l) == FullMatch(P_ONEQ_GATES_REGEX, l)

\* The records' gates, materialized in order.
Materialized(rs) == [k \in 1..Len(rs) |-> gate_from_gate_dict(rs[k]).gate]

\* The errors of the syntax and of a malformed field.
SyntaxErrors == {"InvalidSyntaxError", "ValueError", "IndexError"}

\* C1: the validator accepts a text exactly when circuit_from_string ends
\* without a syntax or malformed-field error.
ValidatorSoundness ==
    (ParseCall /\ pc = "done")
        => (valid <=> ~(result.kind = "raise" /\ result.err \in SyntaxErrors))

EncodesGates ==
    /\ origin.lines # <<>>
    /\ \A k \in 1..Len(origin.lines) : IsGate(origin.lines[k])

\* C3: for an accepted text of the gate occurrences g1..gn the scan yields
\* exactly g1..gn, and the circuit's gates are theirs in that order.
OrderPreserved ==
    (ParseCall /\ valid /\ EncodesGates) =>
        /\ pc \in {"records", "first", "loop", "done"} => gates = origin.lines
        /\ result.kind = "circuit" =>
            /\ Len(result.circuit) = Len(origin.lines)
            /\ \A k \in 1..Len(origin.lines) :
                 result.circuit[k]
                     = gate_from_gate_dict(gate_string_to_dict(origin.lines[k]).val).gate

WsEnds(s, p) ==
    p..Min({k \in p..(Len(s) + 1) : k = Len(s) + 1 \/ s[k] \notin Whitespace})

\* The positions after one gate occurrence, and the whitespace that follows
\* it, from one of the positions P.
AfterOneGate(s, P) ==
    UNION {UNION {WsEnds(s, e) : e \in Range(Match(gate_regex, s, k))} : k \in P}

\* The positions after one or more gate occurrences from one of the
\* positions P. A gate occurrence is not empty, so the positions move on and
\* run out.
RECURSIVE AfterGates(_, _)
AfterGates(s, P) ==
    IF P = {} THEN {}
    ELSE Value({Q \cup AfterGates(s, Q) : Q \in {AfterOneGate(s, P)}})

\* s is the header, then one or more gate occurrences, each of one of the
\* three families, with nothing but whitespace between and after them.
Conforms(s) ==
    /\ Len(s) >= 8
    /\ SubSeq(s, 1, 8) = <<"c", "i", "r", "c", "u", "i", "t", ":">>
    /\ (Len(s) + 1) \in AfterGates(s, WsEnds(s, 9))

Shares(g) ==
    /\ g.control.some
    /\ \E a \in DOMAIN g.target, b \in DOMAIN g.control.val :
           g.target[a] = g.control.val[b]

\* C6: a record whose targets and controls share a qubit makes
\* gate_from_gate_dict raise SameControlAndTarget before the dispatch on the
\* name, whatever the name; a record with no controls never raises it; and no
\* circuit is built from a text with such a gate.
DisjointnessEnforced ==
    /\ (GateCall /\ Shares(arg)) =>
           /\ pc # "dispatch" /\ ~dispatched
           /\ pc = "done" => result = GotError("SameControlAndTarget")
    /\ (GateCall /\ pc = "done" /\ (~arg.control.some \/ arg.control.val = <<>>)) =>
           result # GotError("SameControlAndTarget")
    /\ (ParseCall /\ result.kind = "circuit") =>
           \A k \in 1..Len(records) : ~Shares(records[k])

\* C6, witness: a record of an unsupported name whose second target is its
\* control was refused.
SharedQubitRefused ==
    /\ GateCall /\ pc = "done"
    /\ arg.name \notin SupportedNames
    /\ Len(arg.target) = 2 /\ arg.target[1] \notin Range(arg.control.val)
    /\ Shares(arg)
    /\ result = GotError("SameControlAndTarget")

\* C7: the printed text of a circuit of supported gates is accepted, and
\* circuit_from_string of it gives a circuit of the same qubit count, gate
\* depth, gate count and parameter count.
RoundTrip ==
    (ParseCall /\ origin.printed /\ origin.circuit # <<>> /\ pc # "validate") =>
        /\ valid
        /\ pc = "done" =>
            /\ result.kind = "circuit"
            /\ CircuitInfo(result.circuit) = CircuitInfo(origin.circuit)

\* A decimal number: digits, with an optional sign and an optional point.
IsDecimal(tok) ==
    LET body == IF tok # <<>> /\ Head(tok) = "-" THEN Tail(tok) ELSE tok
        parts == SplitOnce(body, <<".">>)
    IN  /\ parts[1] # <<>> /\ AllDigits(parts[1])
        /\ Len(parts) = 2 => AllDigits(parts[2])

\* C8: a parametrized gate text whose parameter token is no decimal number
\* gives, without an error, a record whose parameter is the whole token as a
\* string; a decimal token gives a float.
SymbolicPreserved ==
    (RecordCall /\ pc = "done" /\ IsParametrized(text)) =>
        /\ result.kind = "record"
        /\ IF IsDecimal(ParameterToken(text))
           THEN result.record.parameter.kind = "float"
           ELSE /\ result.record.parameter.kind = "str"
                /\ result.record.parameter.str = ParameterToken(text)

\* C9: a record of an unsupported name with disjoint targets and controls
\* makes gate_from_gate_dict fail.
UnsupportedKindFails ==
    (GateCall /\ pc = "done" /\ arg.name \notin SupportedNames /\ ~Shares(arg))
        => result.kind = "raise"

\* The text has a control field: one follows the closing bracket of its
\* target field.
HasControlField(l) ==
    LET p == Find(l, <<")">>, 1)
    IN  /\ p # 0
        /\ Len(l) >= p + 11
        /\ SubSeq(l, p + 1, p + 11)
               = <<",", " ", "c", "o", "n", "t", "r", "o", "l", "=", "(">>

\* C10: for a text of one gate occurrence gate_string_to_dict returns a
\* record whose controls are present exactly when the text has a control
\* field and whose parameter is present exactly when it has a parameter field.
FieldSelection ==
    (RecordCall /\ pc = "done" /\ IsGate(text)) =>
        /\ result.kind = "record"
        /\ result.record.control.some <=> HasControlField(text)
        /\ result.record.parameter.kind # "none" <=> IsParametrized(text)

====
